---- MODULE Spec2Model ----
(***************************************************************************)
(* Model of src/main.py: the sliding-window chunker chunk_text and the     *)
(* processing pass of main() that sends each chunk, then the accumulated   *)
(* results, to the AI client.                                              *)
(***************************************************************************)
EXTENDS Integers, Sequences, FiniteSets, TLC

\* ---- bounds of the chunk_text harness ----
MaxTextLen == 5
MaxChunkSize == 4
MaxOverlap == 4
\* cap on loop iterations; a valid configuration never needs more than
\* Len(text) iterations, so the cap only cuts the non-terminating runs
MaxIter == MaxTextLen + 2
\* ---- bounds of the main() harness: document lengths k * DocStep ----
DocStep == 3000
MaxDocSteps == 4

\* ---- program constants ----
DefaultChunkSize == 6000
DefaultOverlap == 500

Alphabet == {"a", "b"}
Texts == UNION {[1..n -> Alphabet] : n \in 0..MaxTextLen}

VARIABLES
    \* chunk_text
    text, chunk_size, overlap, start, chunks, pc,
    starts,            \* history: value of `start` at each append
    \* main
    GOOGLE_API_KEY, mpc, pdf_text, i, all_chunk_results, final_analysis,
    markdown_output, errors, inflight,
    calls              \* history: AI client call/return events, in order

cvars == <<text, chunk_size, overlap, start, chunks, pc, starts>>
mvars == <<GOOGLE_API_KEY, mpc, pdf_text, i, all_chunk_results, final_analysis,
           markdown_output, errors, inflight, calls>>
vars == <<text, chunk_size, overlap, start, chunks, pc, starts,
          GOOGLE_API_KEY, mpc, pdf_text, i, all_chunk_results, final_analysis,
          markdown_output, errors, inflight, calls>>

\* ---- Python values ----
None == [tag |-> "None"]
Str(s) == [tag |-> "str", val |-> s]
\* truth value of an Optional[str]: None and "" are falsy
Truthy(v) == v.tag = "str" /\ v.val # <<>>

\* Python slice index normalisation for s[i:j]
PyIndex(k, n) ==
    IF k < 0 THEN (IF k + n < 0 THEN 0 ELSE k + n)
    ELSE (IF k > n THEN n ELSE k)

\* mutant of PySlice: the end index taken as inclusive-minus-one
PySlice_Short(s, lo, hi) ==
    LET l == PyIndex(lo, Len(s))
        h == PyIndex(hi, Len(s)) - 1
    IN IF l < h THEN SubSeq(s, l + 1, h) ELSE <<>>

PySlice(s, lo, hi) ==
    LET l == PyIndex(lo, Len(s))
        h == PyIndex(hi, Len(s))
    IN IF l < h THEN SubSeq(s, l + 1, h) ELSE <<>>

\* mutants of Advance: off by one (leaves a gap), overlap forgotten
Advance_Gap(end, ov) == end - ov + 1

Advance_NoOverlap(end, ov) == end

\* start = end - overlap
Advance(end, ov) == end - ov

\* ---- chunk_text ----
ChunkEntry ==
    /\ pc = "entry"
    /\ chunks' = <<>>
    /\ start' = 0
    /\ starts' = <<>>
    /\ pc' = "loop"
    /\ UNCHANGED <<text, chunk_size, overlap>>
    /\ UNCHANGED mvars

\* one evaluation of the while statement, lines 39..46, or the return
ChunkLoop ==
    /\ pc = "loop"
    /\ Len(chunks) < MaxIter
    /\ IF start < Len(text)
       THEN LET end == start + chunk_size
                chunk == PySlice(text, start, end)
            IN /\ chunks' = Append(chunks, chunk)
               /\ starts' = Append(starts, start)
               /\ start' = Advance(end, overlap)
               /\ pc' = IF start' >= Len(text) THEN "done" ELSE "loop"
       ELSE /\ pc' = "done"
            /\ UNCHANGED <<chunks, starts, start>>
    /\ UNCHANGED <<text, chunk_size, overlap>>
    /\ UNCHANGED mvars

MainIdle ==
    /\ GOOGLE_API_KEY = TRUE
    /\ mpc = "idle"
    /\ pdf_text = None
    /\ i = 0
    /\ all_chunk_results = <<>>
    /\ final_analysis = None
    /\ markdown_output = None
    /\ errors = <<>>
    /\ inflight = None
    /\ calls = <<>>

\* chunk_text called directly with arbitrary arguments
Init ==
    /\ text \in Texts
    /\ chunk_size \in 1..MaxChunkSize
    /\ overlap \in 0..MaxOverlap
    /\ start = 0
    /\ chunks = <<>>
    /\ starts = <<>>
    /\ pc = "entry"
    /\ MainIdle

Next == ChunkEntry \/ ChunkLoop

Spec == Init /\ [][Next]_vars

\* a call of chunk_text runs to its end: the program is sequential
FairSpec == Spec /\ WF_vars(Next)

\* ---- main ----
\* extracted document of n characters
DocText(n) == IF n = 0 THEN <<>> ELSE [k \in 1..n |-> IF k % 2 = 1 THEN "a" ELSE "b"]
DocLens == {k * DocStep : k \in 0..MaxDocSteps}
\* extract_text_from_pdf: the text, or None after an exception
ExtractOutcomes == {None} \cup {Str(DocText(n)) : n \in DocLens}
\* generate_content: an exception, or response.text
Exception == [tag |-> "exception"]
AIOutcomes == {Exception, Str(<<>>), Str(<<"x">>), Str(<<"y">>)}

RECURSIVE Join(_)
\* "\n\n".join(parts)
Join(parts) ==
    IF parts = <<>> THEN <<>>
    ELSE IF Len(parts) = 1 THEN parts[1]
    ELSE parts[1] \o <<"\n", "\n">> \o Join(Tail(parts))

\* create_markdown_from_ai_analysis
create_markdown_from_ai_analysis(analysis_result) ==
    IF ~Truthy(analysis_result)
    THEN Str(<<"Error: No analysis result available">>)
    ELSE Str(<<"header">> \o analysis_result.val \o <<"footer">>)

\* mutant of AppendResult: newest result first
AppendResult_Front(results, r) == <<r>> \o results

\* all_chunk_results.append(result)
AppendResult(results, r) == Append(results, r)

\* mutant of HasResults: aggregation attempted whatever was collected
HasResults_Always(results) == TRUE

\* if all_chunk_results:
HasResults(results) == results # <<>>

\* mutant of AnalysisReady: tested against None only
AnalysisReady_NotNone(fa) == fa.tag = "str"

\* if final_analysis:
AnalysisReady(fa) == Truthy(fa)

Event(ev, site, num, arg, ret) ==
    [ev |-> ev, site |-> site, num |-> num, arg |-> arg, ret |-> ret]

InitMain ==
    /\ text = <<>>
    /\ chunk_size = DefaultChunkSize
    /\ overlap = DefaultOverlap
    /\ start = 0
    /\ chunks = <<>>
    /\ starts = <<>>
    /\ pc = "idle"
    /\ GOOGLE_API_KEY \in BOOLEAN
    /\ mpc = "start"
    /\ pdf_text = None
    /\ i = 0
    /\ all_chunk_results = <<>>
    /\ final_analysis = None
    /\ markdown_output = None
    /\ errors = <<>>
    /\ inflight = None
    /\ calls = <<>>

\* sidebar: st.stop() when the key is missing
MainStart ==
    /\ mpc = "start"
    /\ mpc' = IF GOOGLE_API_KEY THEN "upload" ELSE "stopped"
    /\ UNCHANGED cvars
    /\ UNCHANGED <<GOOGLE_API_KEY, pdf_text, i, all_chunk_results, final_analysis,
                   markdown_output, errors, inflight, calls>>

\* uploaded_file is None
MainNoUpload ==
    /\ mpc = "upload"
    /\ mpc' = "done"
    /\ UNCHANGED cvars
    /\ UNCHANGED <<GOOGLE_API_KEY, pdf_text, i, all_chunk_results, final_analysis,
                   markdown_output, errors, inflight, calls>>

\* extract the text and, if there is any, call chunk_text(pdf_text)
MainExtract ==
    /\ mpc = "upload"
    /\ \E t \in ExtractOutcomes :
          /\ pdf_text' = t
          /\ errors' = IF t = None THEN Append(errors, "Error reading PDF") ELSE errors
          /\ IF Truthy(t)
             THEN /\ text' = t.val
                  /\ chunk_size' = DefaultChunkSize
                  /\ overlap' = DefaultOverlap
                  /\ pc' = "entry"
                  /\ mpc' = "chunking"
             ELSE /\ mpc' = "done"
                  /\ UNCHANGED <<text, chunk_size, overlap, pc>>
    /\ UNCHANGED <<start, chunks, starts>>
    /\ UNCHANGED <<GOOGLE_API_KEY, i, all_chunk_results, final_analysis,
                   markdown_output, inflight, calls>>

\* chunk_text has returned: all_chunk_results = []
MainChunked ==
    /\ mpc = "chunking"
    /\ pc = "done"
    /\ all_chunk_results' = <<>>
    /\ i' = 0
    /\ mpc' = "analyze"
    /\ UNCHANGED cvars
    /\ UNCHANGED <<GOOGLE_API_KEY, pdf_text, final_analysis, markdown_output,
                   errors, inflight, calls>>

\* analyze_chunk_with_gemini(chunk, i+1, ...) sends its request; the key is
\* set here, MainStart having stopped the run otherwise
AnalyzeCall ==
    /\ mpc = "analyze"
    /\ i < Len(chunks)
    /\ inflight' = [site |-> "chunk", num |-> i + 1]
    /\ calls' = Append(calls, Event("call", "chunk", i + 1, chunks[i + 1], None))
    /\ mpc' = "awaiting_chunk"
    /\ UNCHANGED cvars
    /\ UNCHANGED <<GOOGLE_API_KEY, pdf_text, i, all_chunk_results, final_analysis,
                   markdown_output, errors>>

\* the request returns or raises; the result is kept if it is truthy
AnalyzeReturn ==
    /\ mpc = "awaiting_chunk"
    /\ \E o \in AIOutcomes :
          LET result == IF o = Exception THEN None ELSE o
          IN /\ errors' = IF o = Exception
                          THEN Append(errors, "Error analyzing chunk")
                          ELSE errors
             /\ all_chunk_results' = IF Truthy(result)
                                     THEN AppendResult(all_chunk_results, result.val)
                                     ELSE all_chunk_results
             /\ calls' = Append(calls, Event("ret", "chunk", i + 1, <<>>, result))
    /\ i' = i + 1
    /\ inflight' = None
    /\ mpc' = "analyze"
    /\ UNCHANGED cvars
    /\ UNCHANGED <<GOOGLE_API_KEY, pdf_text, final_analysis, markdown_output>>

\* end of the for loop
AnalyzeDone ==
    /\ mpc = "analyze"
    /\ i >= Len(chunks)
    /\ IF HasResults(all_chunk_results)
       THEN /\ mpc' = "combine"
            /\ UNCHANGED errors
       ELSE /\ mpc' = "done"
            /\ errors' = Append(errors, "No chunks were successfully analyzed")
    /\ UNCHANGED cvars
    /\ UNCHANGED <<GOOGLE_API_KEY, pdf_text, i, all_chunk_results, final_analysis,
                   markdown_output, inflight, calls>>

\* combine_and_analyze_topics(all_chunk_results, ...) sends its request
CombineCall ==
    /\ mpc = "combine"
    /\ inflight' = [site |-> "aggregate", num |-> 0]
    /\ calls' = Append(calls, Event("call", "aggregate", 0, Join(all_chunk_results), None))
    /\ mpc' = "awaiting_final"
    /\ UNCHANGED cvars
    /\ UNCHANGED <<GOOGLE_API_KEY, pdf_text, i, all_chunk_results, final_analysis,
                   markdown_output, errors>>

\* the request returns or raises; the guide is built from a truthy analysis
CombineReturn ==
    /\ mpc = "awaiting_final"
    /\ \E o \in AIOutcomes :
          LET result == IF o = Exception THEN None ELSE o
          IN /\ final_analysis' = result
             /\ calls' = Append(calls, Event("ret", "aggregate", 0, <<>>, result))
             /\ IF AnalysisReady(result)
                THEN /\ markdown_output' = create_markdown_from_ai_analysis(result)
                     /\ errors' = IF o = Exception
                                  THEN Append(errors, "Error in final analysis")
                                  ELSE errors
                ELSE /\ markdown_output' = None
                     /\ errors' = Append(IF o = Exception
                                         THEN Append(errors, "Error in final analysis")
                                         ELSE errors,
                                         "Failed to create final analysis")
    /\ inflight' = None
    /\ mpc' = "done"
    /\ UNCHANGED cvars
    /\ UNCHANGED <<GOOGLE_API_KEY, pdf_text, i, all_chunk_results>>

NextMain ==
    \/ MainStart
    \/ MainNoUpload
    \/ MainExtract
    \/ ChunkEntry
    \/ ChunkLoop
    \/ MainChunked
    \/ AnalyzeCall
    \/ AnalyzeReturn
    \/ AnalyzeDone
    \/ CombineCall
    \/ CombineReturn

SpecMain == InitMain /\ [][NextMain]_vars

\* ---- helpers of the properties ----
Min(a, b) == IF a < b THEN a ELSE b
CeilDiv(a, b) == (a + b - 1) \div b
Valid == chunk_size > overlap
Returned == pc = "done"
\* span [lo, hi) of the k-th emitted chunk
SpanLo(k) == starts[k]
SpanHi(k) == Min(starts[k] + chunk_size, Len(text))

\* C1: with chunk_size <= overlap, chunk_text never returns normally (it
\* ends in an InvalidConfiguration error) and no iteration of its loop
\* leaves the cursor `start` where it was or behind.
C1_FailsFast ==
    [][chunk_size <= overlap =>
         /\ pc' # "done"
         /\ (chunks' # chunks => start' > start)]_vars

\* C2: a non-empty text no longer than chunk_size (chunk_size > overlap >= 0)
\* is returned as exactly one chunk, the whole text.
C2_SingleChunk ==
    (Returned /\ Valid /\ text # <<>> /\ Len(text) <= chunk_size)
        => chunks = <<text>>

\* C3: for chunk_size > overlap > 0 and Len(text) > overlap the number of
\* chunks is ceil((Len(text) - overlap) / (chunk_size - overlap)).
C3_ChunkCount ==
    (Returned /\ Valid /\ overlap > 0 /\ Len(text) > overlap)
        => Len(chunks) = CeilDiv(Len(text) - overlap, chunk_size - overlap)

\* C4: for chunk_size > overlap > 0 every returned chunk but the last has
\* length exactly chunk_size, and no chunk is longer than chunk_size.
C4_FullChunks ==
    (Returned /\ Valid /\ overlap > 0)
        => \A k \in 1..Len(chunks) :
              /\ Len(chunks[k]) <= chunk_size
              /\ (k < Len(chunks) => Len(chunks[k]) = chunk_size)

Covered ==
    /\ Len(starts) = Len(chunks)
    /\ \A k \in 1..Len(chunks) :
          /\ SpanLo(k) < SpanHi(k)
          /\ chunks[k] = SubSeq(text, SpanLo(k) + 1, SpanHi(k))
    /\ \A p \in 0..(Len(text) - 1) :
          \E k \in 1..Len(chunks) : SpanLo(k) <= p /\ p < SpanHi(k)
    /\ \A k \in 1..(Len(chunks) - 1) : SpanLo(k + 1) <= SpanHi(k)

\* C5: for chunk_size > overlap >= 0 chunk_text terminates, and the spans
\* of the returned chunks, in order, contain every index of the text, with
\* no gap between one span and the next.
C5_Coverage ==
    /\ []((Returned /\ Valid) => Covered)
    /\ (Valid ~> Returned)

C5_Witness ==
    Returned /\ Valid /\ Len(chunks) >= 3 /\ overlap = 0 /\ Len(text) = MaxTextLen

\* C10: for chunk_size > overlap > 0 each chunk starts chunk_size - overlap
\* after its predecessor, and the two chunks hold the same characters at the
\* text positions of the predecessor's last `overlap` window positions that
\* lie below Len(text).
C10_Overlap ==
    (Valid /\ overlap > 0 /\ Len(starts) = Len(chunks))
        => \A k \in 1..(Len(chunks) - 1) :
              /\ starts[k + 1] = starts[k] + chunk_size - overlap
              /\ \A p \in starts[k + 1]..(SpanHi(k) - 1) :
                    /\ p >= starts[k] + chunk_size - overlap
                    /\ p - starts[k + 1] + 1 <= Len(chunks[k + 1])
                    /\ chunks[k][p - starts[k] + 1] = chunks[k + 1][p - starts[k + 1] + 1]

C10_Witness ==
    /\ Returned /\ Valid /\ overlap > 1 /\ Len(chunks) >= 2
    /\ starts[2] + overlap <= Len(text)
    /\ chunks[2][1] # chunks[2][2]

\* ---- properties of main ----
\* span of the k-th chunk as emitted: its start and its start plus its length
EmittedSpan(k) == <<starts[k], starts[k] + Len(chunks[k])>>
EmittedSpans == [k \in 1..Len(chunks) |-> EmittedSpan(k)]
DefaultCall12000 ==
    /\ Returned
    /\ Len(text) = 12000
    /\ chunk_size = DefaultChunkSize
    /\ overlap = DefaultOverlap

\* C6 as stated: a 12000-character text under the defaults gives three
\* chunks, at offsets 0, 5500, 11000, with spans [0:6000), [5500:11000),
\* [11000:12000).
C6_Original ==
    DefaultCall12000 =>
        /\ Len(chunks) = 3
        /\ starts = <<0, 5500, 11000>>
        /\ EmittedSpans = <<<<0, 6000>>, <<5500, 11000>>, <<11000, 12000>>>>

\* C6 as amended: a 12000-character text under the defaults gives three
\* chunks, at offsets 0, 5500, 11000, with spans [0:6000), [5500:11500),
\* [11000:12000), each chunk being that slice of the text.
C6_Spans ==
    DefaultCall12000 =>
        /\ Len(chunks) = 3
        /\ starts = <<0, 5500, 11000>>
        /\ EmittedSpans = <<<<0, 6000>>, <<5500, 11500>>, <<11000, 12000>>>>
        /\ \A k \in 1..3 :
              chunks[k] = SubSeq(text, EmittedSpan(k)[1] + 1, EmittedSpan(k)[2])

C6_Witness == DefaultCall12000 /\ Len(chunks) = 3

IsChunkRet(e) == e.ev = "ret" /\ e.site = "chunk"
IsChunkCall(e) == e.ev = "call" /\ e.site = "chunk"
IsAggCall(e) == e.ev = "call" /\ e.site = "aggregate"
IsAggRet(e) == e.ev = "ret" /\ e.site = "aggregate"
\* a call succeeded when it returned a text that is not empty
IsSuccess(e) == e.ev = "ret" /\ Truthy(e.ret)
ChunkCalls == SelectSeq(calls, IsChunkCall)
ChunkRets == SelectSeq(calls, IsChunkRet)
IsChunkSuccess(e) == IsChunkRet(e) /\ IsSuccess(e)
ChunkSuccesses == SelectSeq(calls, IsChunkSuccess)
AggCalls == SelectSeq(calls, IsAggCall)
AggRets == SelectSeq(calls, IsAggRet)
\* the for loop over the chunks has been left
PassOver == mpc \in {"combine", "awaiting_final", "done"} /\ Truthy(pdf_text)

\* C7: a failed per-chunk call does not stop the later ones (after the loop
\* every chunk 1..n has had its call, in order), and the accumulated list
\* is exactly the results of the calls that succeeded, in chunk order.
C7_Accumulated ==
    /\ all_chunk_results = [k \in 1..Len(ChunkSuccesses) |-> ChunkSuccesses[k].ret.val]
    /\ \A k \in 1..Len(ChunkRets) : ChunkRets[k].num = k
    /\ PassOver => Len(ChunkRets) = Len(chunks)

C7_Witness ==
    /\ PassOver
    /\ Len(chunks) = 3
    /\ ~IsSuccess(ChunkRets[1])
    /\ IsSuccess(ChunkRets[2])
    /\ IsSuccess(ChunkRets[3])
    /\ ChunkRets[2].ret # ChunkRets[3].ret
    /\ Len(all_chunk_results) = 2

\* C8: a guide is produced only if some per-chunk call and the aggregation
\* call succeeded; when the pass ends with no chunk result, or with a failed
\* aggregation call, no guide is produced and the matching error is shown.
ErrorShown(msg) == \E k \in 1..Len(errors) : errors[k] = msg
C8_GuideOnlyOnSuccess ==
    /\ markdown_output # None =>
          /\ Len(ChunkSuccesses) >= 1
          /\ Len(AggRets) = 1
          /\ IsSuccess(AggRets[1])
          /\ markdown_output = create_markdown_from_ai_analysis(AggRets[1].ret)
    /\ (mpc = "done" /\ Truthy(pdf_text) /\ Len(ChunkSuccesses) = 0) =>
          /\ markdown_output = None
          /\ ErrorShown("No chunks were successfully analyzed")
    /\ (mpc = "done" /\ Len(AggRets) = 1 /\ ~IsSuccess(AggRets[1])) =>
          /\ markdown_output = None
          /\ ErrorShown("Failed to create final analysis")

C8_Witness ==
    /\ mpc = "done"
    /\ Len(ChunkSuccesses) >= 1
    /\ Len(AggRets) = 1
    /\ AggRets[1].ret = Str(<<>>)
    /\ markdown_output = None

\* what C9 states of the log of calls, the number of aggregation calls
\* apart: calls strictly alternate with their returns, the k-th per-chunk
\* call is for chunk k, and an aggregation call comes after the return of
\* the last per-chunk call and is given the join of all chunk outputs.
CallDiscipline ==
    /\ \A k \in 1..Len(calls) :
          /\ calls[k].ev = (IF k % 2 = 1 THEN "call" ELSE "ret")
          /\ (k % 2 = 0 => /\ calls[k].site = calls[k - 1].site
                           /\ calls[k].num = calls[k - 1].num)
    /\ (inflight # None) <=> (Len(calls) % 2 = 1)
    /\ \A k \in 1..Len(ChunkCalls) :
          /\ ChunkCalls[k].num = k
          /\ ChunkCalls[k].arg = chunks[k]
    /\ Len(ChunkCalls) <= Len(chunks)
    /\ PassOver => Len(ChunkCalls) = Len(chunks)
    /\ \A k \in 1..Len(calls) :
          IsAggCall(calls[k]) =>
              /\ k = 2 * Len(chunks) + 1
              /\ calls[k].arg = Join(all_chunk_results)

\* C9 as stated: one call per chunk, one at a time, in order, never retried,
\* then exactly one aggregation call.
C9_Original ==
    /\ CallDiscipline
    /\ (mpc = "done" /\ Truthy(pdf_text)) => Len(AggCalls) = 1

\* C9 as amended: one call per chunk, one at a time, in order, never retried,
\* then exactly one aggregation call if some per-chunk call succeeded and
\* none otherwise.
C9_Sequential ==
    /\ CallDiscipline
    /\ Len(AggCalls) <= 1
    /\ (mpc = "done" /\ Truthy(pdf_text)) =>
          Len(AggCalls) = (IF Len(ChunkSuccesses) >= 1 THEN 1 ELSE 0)

C9_Witness ==
    /\ mpc = "done"
    /\ Len(chunks) = 3
    /\ Len(ChunkSuccesses) = 0
    /\ Len(AggCalls) = 0
====
